---- MODULE Spec2Model ----
(***************************************************************************)
(* Model of the rclone remote-control HTTP front end                       *)
(* (fs/rc/rcserver/rcserver.go): the top-level handler, the POST pipeline  *)
(* (decode, registry lookup, auth gate, sync/async execution, response)    *)
(* and the GET/HEAD path router with the remote browser.                   *)
(*                                                                         *)
(* Strings that the code slices (URL paths) are sequences of tokens; a     *)
(* parameter value is a record [t, v] carrying its JSON type; a parameter  *)
(* map (rc.Params) is a record [nil, m] so that a nil map and an empty map *)
(* stay distinct.                                                          *)
(***************************************************************************)
EXTENDS Integers, Sequences, FiniteSets, TLC

VARIABLES
    opt,        \* the server's options: NoAuth, Auth (UsingAuth), Serve, Files
    pc,         \* where the serving goroutine is: idle, inFn, reply, done
    req,        \* the request being served
    in,         \* the parameter map of the request (rc.Params)
    resp,       \* what has been written to the ResponseWriter
    trace,      \* the calls the handler made for this request, in order
    inline,     \* the handler call made on the serving goroutine
    ret,        \* (out, err) of call.Fn or rc.StartJob
    job,        \* the job the scheduler runs in the background
    cancelled,  \* whether the request's context is cancelled
    header,     \* the Add calls made on w.Header(), in order
    listed,     \* the entries list.DirSorted returned to serveRemote
    put         \* one call of the 1Fichier backend's Put and the remote it
                \* works on

serverVars ==
    <<opt, pc, req, in, resp, trace, inline, ret, job, cancelled, header,
      listed>>
vars == <<serverVars, put>>

(***************************************************************************)
(* Bounds of the model.                                                    *)
(***************************************************************************)
MaxQueryLen == 2
MaxFormLen == 1

(***************************************************************************)
(* Values, parameter maps, errors.                                         *)
(***************************************************************************)
Str(s) == [t |-> "string", v |-> s]
Bool(b) == [t |-> "bool", v |-> b]
Num(n) == [t |-> "number", v |-> n]

EmptyMap == [k \in {} |-> Str("")]
MkParams(f) == [nil |-> FALSE, m |-> f]
NilParams == [nil |-> TRUE, m |-> EmptyMap]

ErrNil == [cause |-> "nil", text |-> "", arg |-> <<>>]
Err(cause, text, arg) == [cause |-> cause, text |-> text, arg |-> arg]
\* errors.Wrap keeps the cause and prefixes the message
Wrap(err, text) == [cause |-> err.cause, text |-> text, arg |-> <<err.text>>]

\* SeqsUpTo(S, n): the sequences over S of length at most n
SeqsUpTo(S, n) == UNION {[1..k -> S] : k \in 0..n}

\* key=value pairs of queries and forms: the reserved key and an ordinary
\* parameter with two values
Keys == {"_async", "num"}
Pairs ==
    {[k |-> "_async", v |-> "true"],
     [k |-> "num", v |-> "5"], [k |-> "num", v |-> "7"]}

Queries == SeqsUpTo(Pairs, MaxQueryLen)
FormBodies ==
    {[kind |-> "form", pairs |-> s] : s \in SeqsUpTo(Pairs, MaxFormLen)}
JSONVals(k) ==
    IF k = "_async" THEN {Str("5"), Bool("true"), Bool("false")}
    ELSE {Str("5")}
JSONObjects ==
    UNION {{o \in [K -> UNION {JSONVals(k) : k \in Keys}] :
              \A k \in K : o[k] \in JSONVals(k)} : K \in SUBSET Keys}
JSONBodies == {[kind |-> "json", obj |-> o] : o \in JSONObjects}
NullBody == [kind |-> "null"]
EmptyBody == [kind |-> "empty"]
GarbageBody == [kind |-> "garbage"]

CTForm == "application/x-www-form-urlencoded"
CTJSON == "application/json"
CTOther == "text/plain"

(***************************************************************************)
(* Parameter decoding (handlePost, first half).                            *)
(***************************************************************************)
\* url.Values for a list of key=value pairs: key -> values in order
ParseQuery(q) ==
    [k \in {q[i].k : i \in DOMAIN q} |->
        LET s == SelectSeq(q, LAMBDA p : p.k = k)
        IN  [i \in 1..Len(s) |-> s[i].v]]

\* r.URL.Query()
URLQuery(r) == ParseQuery(r.query)

\* r.ParseForm() for a POST: r.Form holds, per key, the body's values
\* followed by the query's values; an unparseable body is an error.
ParseForm(r) ==
    IF r.body.kind = "garbage"
    THEN [err |-> Err("other", "invalid URL escape", <<>>), form |-> EmptyMap]
    ELSE LET b == IF r.body.kind = "form" THEN ParseQuery(r.body.pairs)
                  ELSE EmptyMap
             u == ParseQuery(r.query)
         IN  [err |-> ErrNil,
              form |-> [k \in DOMAIN b \cup DOMAIN u |->
                          (IF k \in DOMAIN b THEN b[k] ELSE <<>>)
                          \o (IF k \in DOMAIN u THEN u[k] ELSE <<>>)]]

\* the first value of the list taken instead of the last
PickFirstValue(vs) == vs[1]

\* in[k] = vs[len(vs)-1]
PickValue(vs) == vs[Len(vs)]

\* the loop that reads values into in
ReadValues(values) ==
    MkParams([k \in {x \in DOMAIN values : Len(values[x]) > 0} |->
                Str(PickValue(values[k]))])

\* a decoder that leaves the keys already in the map alone
JSONDecodeKeepingExisting(body, p) ==
    CASE body.kind = "json" ->
           [err |-> ErrNil,
            in |-> MkParams([k \in DOMAIN p.m \cup DOMAIN body.obj |->
                      IF k \in DOMAIN p.m THEN p.m[k] ELSE body.obj[k]])]
      [] body.kind = "null" -> [err |-> ErrNil, in |-> NilParams]
      [] OTHER -> [err |-> Err("other", "invalid JSON", <<>>), in |-> p]

\* json.NewDecoder(r.Body).Decode(&in)
JSONDecode(body, p) ==
    CASE body.kind = "json" ->
           [err |-> ErrNil,
            in |-> MkParams([k \in DOMAIN p.m \cup DOMAIN body.obj |->
                      IF k \in DOMAIN body.obj THEN body.obj[k] ELSE p.m[k]])]
      [] body.kind = "null" -> [err |-> ErrNil, in |-> NilParams]
      [] OTHER -> [err |-> Err("other", "invalid JSON", <<>>), in |-> p]

(***************************************************************************)
(* Paths.                                                                  *)
(***************************************************************************)
RECURSIVE TrimLeft(_, _)
\* strings.TrimLeft(s, c)
TrimLeft(s, c) ==
    IF s # <<>> /\ Head(s) = c THEN TrimLeft(Tail(s), c) ELSE s

RECURSIVE TrimRight(_, _)
TrimRight(s, c) ==
    IF s # <<>> /\ s[Len(s)] = c
    THEN TrimRight(SubSeq(s, 1, Len(s) - 1), c) ELSE s

\* strings.Trim(s, c)
Trim(s, c) == TrimRight(TrimLeft(s, c), c)

\* strings.HasSuffix(s, c) for a one-character suffix
HasSuffix(s, c) == s # <<>> /\ s[Len(s)] = c

(***************************************************************************)
(* Collaborators of the handler: the registry rc.Calls, Params.GetBool,    *)
(* the error predicates of package rc, the handlers and the scheduler.     *)
(***************************************************************************)
CallPaths == {<<"echo">>, <<"op">>, <<"secure">>}

\* rc.Calls.Get(path): exact match on the path, nil when absent
CallsGet(path) ==
    IF path \in CallPaths
    THEN [found |-> TRUE, Fn |-> path[1], AuthRequired |-> path = <<"secure">>]
    ELSE [found |-> FALSE, Fn |-> "", AuthRequired |-> FALSE]

\* strconv.ParseBool on the strings of the model
ParsesAsBool(s) == s \in {"true", "false"}

\* Params.GetBool(key)
GetBool(p, key) ==
    IF p.nil \/ key \notin DOMAIN p.m
    THEN [b |-> FALSE, err |-> Err("ErrParamNotFound", "didn't find key", <<key>>)]
    ELSE LET x == p.m[key]
         IN  CASE x.t = "bool" -> [b |-> x.v = "true", err |-> ErrNil]
               [] x.t = "string" /\ ParsesAsBool(x.v) ->
                      [b |-> x.v = "true", err |-> ErrNil]
               [] OTHER ->
                      [b |-> FALSE,
                       err |-> Err("ErrParamInvalid", "couldn't parse as bool", <<key>>)]

IsErrParamInvalid(err) == err.cause = "ErrParamInvalid"
IsErrParamNotFound(err) == err.cause = "ErrParamNotFound"
NotErrParamNotFound(err) == err # ErrNil /\ ~IsErrParamNotFound(err)

\* what a handler can return for (ctx, in): echo returns its input, secure
\* returns a fixed result, op returns any result or error and, when it
\* holds the request's context, can see its cancellation.
FnErrors ==
    {Err("other", "operation failed", <<>>),
     Err("ErrorObjectNotFound", "object not found", <<>>),
     Err("ErrParamInvalid", "bad parameter", <<>>),
     Err("ErrParamNotFound", "missing parameter", <<>>)}
FnResults(fn, ctx, p, isCancelled) ==
    CASE fn = "echo" -> {[out |-> p, err |-> ErrNil]}
      [] fn = "secure" ->
           {[out |-> MkParams([k \in {"result"} |-> Str("ok")]), err |-> ErrNil]}
      [] OTHER ->
           {[out |-> NilParams, err |-> ErrNil],
            [out |-> MkParams([k \in {"result"} |-> Str("ok")]), err |-> ErrNil]}
           \cup {[out |-> NilParams, err |-> e] : e \in FnErrors}
           \cup (IF ctx = "request" /\ isCancelled
                 THEN {[out |-> NilParams,
                        err |-> Err("other", "context canceled", <<>>)]}
                 ELSE {})

\* rc.StartJob: a new job running fn(in) on its own goroutine, and the job
\* handle; or an error. A job that is given no context runs under one of
\* its own.
NoJob == [status |-> "none"]
NewJob(fn, p, ctx) ==
    [status |-> "running", Fn |-> fn, in |-> p,
     ctx |-> IF ctx = "none" THEN "background" ELSE ctx,
     out |-> NilParams, err |-> ErrNil]
JobHandle == MkParams([k \in {"jobid"} |-> Num("1")])
StartJobResults(fn, p, ctx) ==
    {[job |-> NewJob(fn, p, ctx), out |-> JobHandle, err |-> ErrNil],
     [job |-> NoJob, out |-> NilParams,
      err |-> Err("other", "failed to start job", <<>>)]}

(***************************************************************************)
(* The response writer.                                                    *)
(***************************************************************************)
StatusOK == 200
StatusBadRequest == 400
StatusForbidden == 403
StatusNotFound == 404
StatusMethodNotAllowed == 405
StatusInternalServerError == 500

NoResp == [status |-> 0, kind |-> "none"]

\* writeError without its adjustment for well known errors
ErrorStatusUnadjusted(err, status) == status

\* writeError without its rule for parameter errors
ErrorStatusWithoutParamRule(err, status) ==
    IF err.cause \in {"ErrorDirNotFound", "ErrorObjectNotFound"}
    THEN StatusNotFound ELSE status

\* the status writeError settles on
ErrorStatus(err, status) ==
    CASE err.cause \in {"ErrorDirNotFound", "ErrorObjectNotFound"} -> StatusNotFound
      [] IsErrParamInvalid(err) \/ IsErrParamNotFound(err) -> StatusBadRequest
      [] OTHER -> status

\* writeError with the input left out of the body
writeErrorWithoutInput(path, p, err, status) ==
    LET s == ErrorStatus(err, status)
    IN  [status |-> s, kind |-> "error", asked |-> status,
         body |-> [status |-> s, error |-> err, input |-> NilParams,
                   path |-> path]]

\* writeError(path, in, w, err, status): the status written and the JSON
\* body; asked keeps the status the caller passed
writeError(path, p, err, status) ==
    LET s == ErrorStatus(err, status)
    IN  [status |-> s, kind |-> "error", asked |-> status,
         body |-> [status |-> s, error |-> err, input |-> p, path |-> path]]

\* rc.WriteJSON(w, out) with no status written before: 200
WriteJSON(out) == [status |-> StatusOK, kind |-> "json", body |-> out]

(***************************************************************************)
(* handlePost up to the point where it calls the handler or the scheduler. *)
(* The result says what the serving goroutine does next: "error" (resp was *)
(* written by writeError and the handler returned), "inline" (call.Fn is   *)
(* called with the request's context) or "job" (rc.StartJob is called).    *)
(***************************************************************************)
\* the authorisation check with the NoAuth option forgotten
AuthRejectedIgnoringNoAuth(o, call) == call.AuthRequired /\ ~o.Auth

\* the condition of the authorisation check
AuthRejected(o, call) == ~o.NoAuth /\ call.AuthRequired /\ ~o.Auth

\* the parameter map handed on with _async still in it
DeleteAsyncForgotten(p) == p

\* delete(in, "_async")
DeleteAsync(p) ==
    IF p.nil THEN p
    ELSE MkParams([k \in DOMAIN p.m \ {"_async"} |-> p.m[k]])

\* the branch on isAsync always taking the inline call
ExecModeAlwaysInline(isAsync) == "inline"

\* the branch on isAsync
ExecMode(isAsync) == IF isAsync THEN "job" ELSE "inline"

\* the context handed to call.Fn on the serving goroutine: r.Context()
InlineCtx == "request"

\* the request's context handed to the scheduler as well
SubmitCtxOfRequest == "request"

\* the context handed to rc.StartJob: none, its arguments are (call.Fn, in)
SubmitCtx == "none"

\* a rejection that writes the status alone
RejectedBare(tr, p, w) ==
    [kind |-> "error", trace |-> Append(tr, "WriteHeader"), in |-> p,
     resp |-> [status |-> w.status, kind |-> "text", body |-> <<>>], Fn |-> ""]

Rejected(tr, p, w) ==
    [kind |-> "error", trace |-> Append(tr, "writeError"), in |-> p,
     resp |-> w, Fn |-> ""]

\* the block that parses the form into values
FormStep(r) ==
    IF r.contentType = CTForm
    THEN LET f == ParseForm(r)
         IN  [err |-> f.err, values |-> f.form, trace |-> <<"Query", "ParseForm">>]
    ELSE [err |-> ErrNil, values |-> URLQuery(r), trace |-> <<"Query">>]

\* the JSON block with the decoder's error dropped
JSONStepIgnoringError(r, p) ==
    IF r.contentType = CTJSON
    THEN LET d == JSONDecode(r.body, p)
         IN  [err |-> ErrNil, in |-> d.in, trace |-> <<"Decode">>]
    ELSE [err |-> ErrNil, in |-> p, trace |-> <<>>]

\* the block that decodes a JSON body over in
JSONStep(r, p) ==
    IF r.contentType = CTJSON
    THEN LET d == JSONDecode(r.body, p)
         IN  [err |-> d.err, in |-> d.in, trace |-> <<"Decode">>]
    ELSE [err |-> ErrNil, in |-> p, trace |-> <<>>]

\* _async read before the auth gate is applied
AfterLookupAsyncFirst(o, call, path, p, tr) ==
    LET g == GetBool(p, "_async")
        t3 == Append(tr, "GetBool")
    IN
    IF NotErrParamNotFound(g.err)
    THEN Rejected(t3, p, writeError(path, p, g.err, StatusBadRequest))
    ELSE
    IF AuthRejected(o, call)
    THEN Rejected(t3, p,
            writeError(path, p,
                Err("other", "authentication must be set up on the rc server", path),
                StatusForbidden))
    ELSE
    [kind |-> ExecMode(g.b), trace |-> t3, in |-> DeleteAsync(p),
     resp |-> NoResp, Fn |-> call.Fn]

\* handlePost once the call is found: the auth gate, then _async
AfterLookup(o, call, path, p, tr) ==
    IF AuthRejected(o, call)
    THEN Rejected(tr, p,
            writeError(path, p,
                Err("other", "authentication must be set up on the rc server", path),
                StatusForbidden))
    ELSE
    LET g == GetBool(p, "_async")
        t3 == Append(tr, "GetBool")
    IN
    IF NotErrParamNotFound(g.err)
    THEN Rejected(t3, p, writeError(path, p, g.err, StatusBadRequest))
    ELSE
    [kind |-> ExecMode(g.b), trace |-> t3, in |-> DeleteAsync(p),
     resp |-> NoResp, Fn |-> call.Fn]

handlePost(r, o, path) ==
    LET f == FormStep(r) IN
    IF f.err # ErrNil
    THEN Rejected(f.trace, NilParams,
            writeError(path, NilParams,
                Wrap(f.err, "failed to parse form/URL parameters"),
                StatusBadRequest))
    ELSE
    LET d == JSONStep(r, ReadValues(f.values))
        t1 == f.trace \o d.trace
    IN
    IF d.err # ErrNil
    THEN Rejected(t1, d.in,
            writeError(path, d.in, Wrap(d.err, "failed to read input JSON"),
                StatusBadRequest))
    ELSE
    LET call == CallsGet(path)
        t2 == Append(t1, "Calls.Get")
    IN
    IF ~call.found
    THEN Rejected(t2, d.in,
            writeError(path, d.in, Err("other", "couldn't find method", path),
                StatusNotFound))
    ELSE AfterLookup(o, call, path, d.in, t2)

(***************************************************************************)
(* The GET/HEAD router and the remote browser.                             *)
(***************************************************************************)
\* fsMatch = ^\[(.*?)\](.*)$ : the path opens with "[" and holds a "]";
\* the first group runs to the first "]", the second is what follows it
ClosePositions(path) == {i \in 2..Len(path) : path[i] = "]"}
\* the first group taken greedily: it runs to the last "]"
LastClose(path) ==
    CHOOSE i \in ClosePositions(path) : \A j \in ClosePositions(path) : i >= j
FirstClose(path) ==
    CHOOSE i \in ClosePositions(path) : \A j \in ClosePositions(path) : i <= j
fsMatch(path) ==
    IF path # <<>> /\ Head(path) = "[" /\ ClosePositions(path) # {}
    THEN [matched |-> TRUE,
          fsName |-> SubSeq(path, 2, FirstClose(path) - 1),
          rest |-> SubSeq(path, FirstClose(path) + 1, Len(path))]
    ELSE [matched |-> FALSE, fsName |-> <<>>, rest |-> <<>>]

\* what the world outside the handler answers during one GET: cache.Get
\* and the backend's listing and lookup, and the static file server
Remotes == {<<"r">>}
Listings ==
    {<<>>,
     <<[remote |-> "a", isDir |-> FALSE], [remote |-> "d", isDir |-> TRUE]>>}
ListOutcomes ==
    {[err |-> ErrNil, entries |-> l] : l \in Listings}
    \cup {[err |-> Err(c, "listing failed", <<>>), entries |-> <<>>] :
            c \in {"ErrorDirNotFound", "other"}}
ObjectOutcomes ==
    {ErrNil, Err("ErrorObjectNotFound", "object not found", <<>>),
     Err("other", "lookup failed", <<>>)}
Worlds == [list : ListOutcomes, object : ObjectOutcomes,
           file : {StatusOK, StatusNotFound}]

\* cache.Get(fsName)
CacheGet(fsName) ==
    IF fsName \in Remotes THEN ErrNil
    ELSE Err("other", "didn't find section in config file", fsName)

Served(tr, w) == [trace |-> tr, resp |-> w, entries |-> <<>>]

\* the entries of a directory page, one AddEntry per backend entry
DirectoryEntries(entries) ==
    [i \in 1..Len(entries) |->
        [name |-> entries[i].remote, isDir |-> entries[i].isDir]]

serveRoot ==
    Served(<<"serveRoot", "Directory.Serve">>,
        [status |-> StatusOK, kind |-> "listing",
         body |-> [dir |-> <<>>,
                   entries |-> <<[name |-> "[r:]", isDir |-> TRUE]>>]])

\* only the empty sub-path taken for a directory
IsDirRequestEmptyOnly(path) == path = <<>>

\* path == "" || strings.HasSuffix(path, "/")
IsDirRequest(path) == path = <<>> \/ HasSuffix(path, "/")

serveRemote(path, fsName, world) ==
    LET e == CacheGet(fsName) IN
    IF e # ErrNil
    THEN Served(<<"cache.Get", "writeError">>,
            writeError(path, NilParams, Wrap(e, "failed to make Fs"),
                StatusInternalServerError))
    ELSE IF IsDirRequest(path)
    THEN LET dir == Trim(path, "/") IN
         IF world.list.err # ErrNil
         THEN Served(<<"cache.Get", "DirSorted", "writeError">>,
                writeError(dir, NilParams,
                    Wrap(world.list.err, "failed to list directory"),
                    StatusInternalServerError))
         ELSE [Served(<<"cache.Get", "DirSorted", "Directory.Serve">>,
                 [status |-> StatusOK, kind |-> "listing",
                  body |-> [dir |-> dir,
                            entries |-> DirectoryEntries(world.list.entries)]])
               EXCEPT !.entries = world.list.entries]
    ELSE LET obj == Trim(path, "/") IN
         IF world.object # ErrNil
         THEN Served(<<"cache.Get", "NewObject", "writeError">>,
                writeError(obj, NilParams,
                    Wrap(world.object, "failed to find object"),
                    StatusInternalServerError))
         ELSE Served(<<"cache.Get", "NewObject", "serve.Object">>,
                [status |-> StatusOK, kind |-> "object", body |-> obj])

handleGet(o, path, world) ==
    LET match == fsMatch(path) IN
    IF match.matched /\ o.Serve
    THEN serveRemote(match.rest, match.fsName, world)
    ELSE IF path = <<"*">> /\ o.Serve
    THEN serveRoot
    ELSE IF o.Files
    THEN Served(<<"files.ServeHTTP">>,
            [status |-> world.file, kind |-> "file", body |-> path])
    ELSE IF path = <<>> /\ o.Serve
    THEN serveRoot
    ELSE Served(<<"http.Error">>,
            [status |-> StatusNotFound, kind |-> "text",
             body |-> <<"Not Found">>])

\* 204 No Content written in place of 200
handleOptionsNoContent == [status |-> 204, kind |-> "empty", body |-> <<>>]

\* handleOptions
handleOptions == [status |-> StatusOK, kind |-> "empty", body |-> <<>>]

(***************************************************************************)
(* Requests.                                                               *)
(***************************************************************************)
ContentTypes == {CTForm, CTJSON, CTOther}

\* the bodies sent with a content type: a form or a JSON text where the
\* content type announces one (well-formed or not), anything otherwise
BodiesFor(ct) ==
    CASE ct = CTForm -> FormBodies \cup {GarbageBody}
      [] ct = CTJSON -> JSONBodies \cup {NullBody, EmptyBody, GarbageBody}
      [] OTHER -> {EmptyBody, GarbageBody,
                   [kind |-> "json", obj |-> [k \in {"num"} |-> Str("5")]]}

\* the values of the request's Access-Control-Request-Headers header, ""
\* for a request without it
RequestHeaders == {"", "X-Token"}

RcPaths ==
    {<<"/", "echo">>, <<"/", "/", "echo">>, <<"/", "op">>, <<"/", "secure">>,
     <<"/", "nosuch">>}
BrowsePaths ==
    {<<"/">>, <<"/", "*">>, <<"/", "f">>,
     <<"/", "[", "r", "]">>, <<"/", "[", "r", "]", "f">>,
     <<"/", "[", "r", "]", "d", "/">>, <<"/", "[", "r", "]", "/", "f", "/">>,
     <<"/", "[", "x", "]", "f">>, <<"/", "[", "r", "]", "]">>,
     <<"/", "[", "r">>}

\* the POSTs of the model: any query without the cross-origin header, and
\* the header with parameters in the body alone
PostRequests ==
    UNION {[method : {"POST"}, path : RcPaths,
            contentType : {ct}, query : Queries, body : BodiesFor(ct),
            acrh : {""}]
           \cup [method : {"POST"}, path : RcPaths,
                 contentType : {ct}, query : {<<>>}, body : BodiesFor(ct),
                 acrh : RequestHeaders] :
           ct \in ContentTypes}
OtherRequests ==
    UNION {[method : {"GET", "HEAD", "OPTIONS", "DELETE", "PUT"},
            path : RcPaths \cup BrowsePaths,
            contentType : {ct}, query : SeqsUpTo(Pairs, 0),
            body : BodiesFor(ct) \ (FormBodies \cup JSONBodies),
            acrh : RequestHeaders] :
           ct \in ContentTypes}
Requests == PostRequests \cup OtherRequests

NoReq ==
    [method |-> "", path |-> <<>>, contentType |-> "", query |-> <<>>,
     body |-> EmptyBody, acrh |-> ""]
NoCall == [Fn |-> "", in |-> NilParams, ctx |-> "none"]
NoRet == [out |-> NilParams, err |-> ErrNil]

\* the option settings of the model: handlePost reads NoAuth and Auth only
\* and handleGet reads Serve and Files only, so each pair is varied in full
\* with the other pair held at one setting
Options ==
    {o \in [NoAuth : BOOLEAN, Auth : BOOLEAN, Serve : BOOLEAN, Files : BOOLEAN] :
        (o.NoAuth \/ o.Auth) => (o.Serve /\ ~o.Files)}

(***************************************************************************)
(* The 1Fichier backend (backend/fichier): Put, NewObject, putUnchecked.   *)
(* A size is a record [hi, lo] standing for hi * 10^9 + lo bytes, with lo  *)
(* in 0..999999999, so that int64 sizes around 100E9 can be compared.      *)
(***************************************************************************)
\* no Put is running
NoPut == [pc |-> "none"]

\* the files of the remote folder that bear the uploaded file's name
MaxCopies == 2

SizeOf(hi, lo) == [hi |-> hi, lo |-> lo]
SizeGreater(a, b) == a.hi > b.hi \/ (a.hi = b.hi /\ a.lo > b.lo)
SizeZero == SizeOf(0, 0)
\* int64(100E9)
MaxUploadSize == SizeOf(100, 0)
\* src.Size(): unknown (-1), empty, one byte, the limit, one byte more, more
Sizes ==
    {SizeOf(-1, 999999999), SizeZero, SizeOf(0, 1), MaxUploadSize,
     SizeOf(100, 1), SizeOf(250, 0)}

ErrObjectNotFound == Err("ErrorObjectNotFound", "object not found", <<>>)
ErrDirNotFound == Err("ErrorDirNotFound", "directory not found", <<>>)
ErrCantUploadEmptyFiles ==
    Err("ErrorCantUploadEmptyFiles", "can't upload empty files", <<>>)
ErrTooBig == Err("other", "File too big, cant upload", <<>>)
ErrNoDirInCache == Err("other", "Cannot find dir in dircache", <<>>)
\* a failure of the API, the network or a conversion
ErrOther(what) == Err("other", what, <<>>)

\* dirCache.FindRootAndPath(ctx, remote, create): the errors it can give
FindRootAndPathErrors(dirExists, create) ==
    {ErrOther("FindRootAndPath failed")}
    \cup (IF dirExists \/ create THEN {ErrNil} ELSE {ErrDirNotFound})

\* NewObject with a missing directory reported as it is
NewObjectFindErrorUnmapped(err) == err

\* NewObject, the error of FindRootAndPath: a missing directory is
\* reported as a missing object
NewObjectFindError(err) ==
    IF err = ErrDirNotFound THEN ErrObjectNotFound ELSE err

\* NewObject, the loop over files.Items: copies files bear the leaf's
\* name; the first is taken. found tells whether an object is returned.
NewObjectScan(copies, invOk) ==
    IF copies > 0
    THEN IF invOk THEN [found |-> TRUE, err |-> ErrNil]
         ELSE [found |-> FALSE, err |-> ErrNoDirInCache]
    ELSE [found |-> FALSE, err |-> ErrObjectNotFound]

\* Put uploading whatever the lookup says, short of another error
PutCaseUploadingOverExisting(err) ==
    IF err = ErrNil \/ err = ErrObjectNotFound THEN "PutUnchecked"
    ELSE "return"

\* Put, switch err
PutCase(err) ==
    IF err = ErrNil THEN "Update"
    ELSE IF err = ErrObjectNotFound THEN "PutUnchecked"
    ELSE "return"

\* putUnchecked, the test of size
SizeCheck(size) ==
    IF SizeGreater(size, MaxUploadSize) THEN ErrTooBig
    ELSE IF size = SizeZero THEN ErrCantUploadEmptyFiles
    ELSE ErrNil

\* the remotes Put starts on: the directory of the file is missing, or is
\* there with up to MaxCopies files of the file's name
PutWorlds ==
    {[dir |-> FALSE, copies |-> 0]}
    \cup {[dir |-> TRUE, copies |-> n] : n \in 0..MaxCopies}
PutStart(size, w) ==
    [pc |-> "start", size |-> size, dir |-> w.dir, copies |-> w.copies,
     dir0 |-> w.dir, copies0 |-> w.copies, calls |-> <<>>,
     lookup |-> ErrNil, obj |-> "nil", err |-> ErrNil]

(***************************************************************************)
(* The state machine: one serving goroutine and the scheduler's job.       *)
(***************************************************************************)
Init ==
    /\ opt \in Options
    /\ pc = "idle"
    /\ req = NoReq
    /\ in = NilParams
    /\ resp = NoResp
    /\ trace = <<>>
    /\ inline = NoCall
    /\ ret = NoRet
    /\ job = NoJob
    /\ cancelled = FALSE
    /\ header = <<>>
    /\ listed = <<>>
    /\ put = NoPut

\* the dispatch path with its leading slashes left in place
DispatchPathUntrimmed(r) == r.path

\* path := strings.TrimLeft(r.URL.Path, "/")
DispatchPath(r) == TrimLeft(r.path, "/")

\* the serving goroutine is free and the scheduler holds no job
Idle == pc = "idle" /\ job = NoJob

\* the Allow-Headers header left out when the request asks for none
CORSHeadersWhenAsked(r) ==
    <<[name |-> "Access-Control-Allow-Origin", value |-> "*"]>>
    \o (IF r.acrh = "" THEN <<>>
        ELSE <<[name |-> "Access-Control-Allow-Headers", value |-> r.acrh]>>)

\* the two w.Header().Add calls of handler; Header.Get gives "" for a
\* header the request does not carry
CORSHeaders(r) ==
    <<[name |-> "Access-Control-Allow-Origin", value |-> "*"],
      [name |-> "Access-Control-Allow-Headers", value |-> r.acrh]>>

Accept(r) ==
    /\ req' = r
    /\ cancelled' = FALSE
    /\ header' = CORSHeaders(r)
    /\ UNCHANGED <<put, opt, put>>

\* handler, case "POST": handlePost up to the call of call.Fn or rc.StartJob
Post(r) ==
    /\ r.method = "POST"
    /\ Accept(r)
    /\ UNCHANGED listed
    /\ LET plan == handlePost(r, opt, DispatchPath(r)) IN
       /\ in' = plan.in
       /\ CASE plan.kind = "error" ->
                 /\ resp' = plan.resp
                 /\ trace' = plan.trace
                 /\ pc' = "done"
                 /\ UNCHANGED <<inline, ret, job>>
            [] plan.kind = "inline" ->
                 /\ inline' = [Fn |-> plan.Fn, in |-> plan.in, ctx |-> InlineCtx]
                 /\ trace' = Append(plan.trace, "Fn")
                 /\ pc' = "inFn"
                 /\ UNCHANGED <<resp, ret, job>>
            [] plan.kind = "job" ->
                 /\ \E sj \in StartJobResults(plan.Fn, plan.in, SubmitCtx) :
                      /\ job' = sj.job
                      /\ ret' = [out |-> sj.out, err |-> sj.err]
                 /\ trace' = Append(plan.trace, "StartJob")
                 /\ pc' = "reply"
                 /\ UNCHANGED <<resp, inline>>

\* call.Fn returns on the serving goroutine
FnReturn ==
    /\ pc = "inFn"
    /\ \E res \in FnResults(inline.Fn, inline.ctx, inline.in, cancelled) :
         ret' = res
    /\ pc' = "reply"
    /\ UNCHANGED <<put, opt, req, in, resp, trace, inline, job, cancelled, header,
                   listed>>

\* a nil result written as it is
OutUnchecked(out) == out

\* out = make(rc.Params) when out == nil
OutOrEmpty(out) == IF out.nil THEN MkParams(EmptyMap) ELSE out

\* the return after writeError left out: the result is written as well
ReplyWithoutReturn ==
    /\ pc = "reply"
    /\ resp' = WriteJSON(OutOrEmpty(ret.out))
    /\ trace' = IF ret.err # ErrNil
                THEN trace \o <<"writeError", "WriteJSON">>
                ELSE Append(trace, "WriteJSON")
    /\ pc' = "done"
    /\ UNCHANGED <<put, opt, req, in, inline, ret, job, cancelled, header, listed>>

\* handlePost after the call: the error or the result is written
Reply ==
    /\ pc = "reply"
    /\ IF ret.err # ErrNil
       THEN /\ resp' = writeError(DispatchPath(req), in, ret.err,
                          StatusInternalServerError)
            /\ trace' = Append(trace, "writeError")
       ELSE /\ resp' = WriteJSON(OutOrEmpty(ret.out))
            /\ trace' = Append(trace, "WriteJSON")
    /\ pc' = "done"
    /\ UNCHANGED <<put, opt, req, in, inline, ret, job, cancelled, header, listed>>

\* handler, case "OPTIONS"
OptionsRequest(r) ==
    /\ r.method = "OPTIONS"
    /\ Accept(r)
    /\ resp' = handleOptions
    /\ trace' = <<"handleOptions">>
    /\ pc' = "done"
    /\ UNCHANGED <<in, inline, ret, job, listed>>

\* handler, case "GET", "HEAD"
Get(r) ==
    /\ r.method \in {"GET", "HEAD"}
    /\ Accept(r)
    /\ \E world \in Worlds :
         LET g == handleGet(opt, DispatchPath(r), world) IN
         /\ resp' = g.resp
         /\ trace' = g.trace
         /\ listed' = g.entries
    /\ pc' = "done"
    /\ UNCHANGED <<in, inline, ret, job>>

\* the default case falling through to the GET router
MethodNotAllowedAsGet(r) ==
    /\ r.method \notin {"POST", "OPTIONS", "GET", "HEAD"}
    /\ Accept(r)
    /\ \E world \in Worlds :
         LET g == handleGet(opt, DispatchPath(r), world) IN
         /\ resp' = g.resp
         /\ trace' = g.trace
         /\ listed' = g.entries
    /\ pc' = "done"
    /\ UNCHANGED <<in, inline, ret, job>>

\* handler, default case
MethodNotAllowed(r) ==
    /\ r.method \notin {"POST", "OPTIONS", "GET", "HEAD"}
    /\ Accept(r)
    /\ resp' = writeError(DispatchPath(r), NilParams,
                   Err("other", "method not allowed", <<r.method>>),
                   StatusMethodNotAllowed)
    /\ trace' = <<"writeError">>
    /\ pc' = "done"
    /\ UNCHANGED <<in, inline, ret, job, listed>>

\* handler returns: net/http cancels the request's context, the goroutine
\* is free for the next request
Finish ==
    /\ pc = "done"
    /\ pc' = "idle"
    /\ cancelled' = TRUE
    /\ req' = NoReq
    /\ in' = NilParams
    /\ resp' = NoResp
    /\ trace' = <<>>
    /\ inline' = NoCall
    /\ ret' = NoRet
    /\ header' = <<>>
    /\ listed' = <<>>
    /\ UNCHANGED <<put, opt, job>>

\* the client goes away while the handler or the job of its request runs
ClientDisconnect ==
    /\ pc = "inFn" \/ (pc \in {"reply", "done"} /\ job.status = "running")
    /\ ~cancelled
    /\ cancelled' = TRUE
    /\ UNCHANGED <<put, opt, pc, req, in, resp, trace, inline, ret, job, header,
                   listed>>

\* the job's goroutine: the handler returns and the job records the result
JobRun ==
    /\ job.status = "running"
    /\ \E res \in FnResults(job.Fn, job.ctx, job.in, cancelled) :
         job' = [job EXCEPT !.status = "finished", !.out = res.out,
                            !.err = res.err]
    /\ UNCHANGED <<put, opt, pc, req, in, resp, trace, inline, ret, cancelled,
                   header, listed>>

\* the scheduler forgets a finished job
JobExpire ==
    /\ job.status = "finished"
    /\ job' = NoJob
    /\ UNCHANGED <<put, opt, pc, req, in, resp, trace, inline, ret, cancelled,
                   header, listed>>

Next ==
    \/ Idle /\ \E r \in PostRequests : Post(r)
    \/ Idle /\ \E r \in OtherRequests : OptionsRequest(r)
    \/ Idle /\ \E r \in OtherRequests : Get(r)
    \/ Idle /\ \E r \in OtherRequests : MethodNotAllowed(r)
    \/ FnReturn
    \/ Reply
    \/ Finish
    \/ ClientDisconnect
    \/ JobRun
    \/ JobExpire

Spec == Init /\ [][Next]_vars

(***************************************************************************)
(* One call of Fs.Put of the 1Fichier backend, step by step.               *)
(***************************************************************************)
PutInit ==
    /\ opt = [NoAuth |-> FALSE, Auth |-> FALSE, Serve |-> FALSE,
              Files |-> FALSE]
    /\ pc = "idle"
    /\ req = NoReq
    /\ in = NilParams
    /\ resp = NoResp
    /\ trace = <<>>
    /\ inline = NoCall
    /\ ret = NoRet
    /\ job = NoJob
    /\ cancelled = FALSE
    /\ header = <<>>
    /\ listed = <<>>
    /\ put \in {PutStart(size, w) : size \in Sizes, w \in PutWorlds}

\* the call made and the function left with (obj, err)
PutReturn(calls, obj, err) ==
    put' = [put EXCEPT !.pc = "returned", !.calls = put.calls \o calls,
                       !.obj = obj, !.err = err]
PutGoOn(calls, to) ==
    put' = [put EXCEPT !.pc = to, !.calls = put.calls \o calls]

\* Put calls NewObject, which asks the directory cache for the directory
NewObjectFind ==
    /\ put.pc = "start"
    /\ \E e \in FindRootAndPathErrors(put.dir, FALSE) :
         IF e # ErrNil
         THEN put' = [put EXCEPT !.pc = "switch",
                        !.calls = <<"NewObject", "FindRootAndPath">>,
                        !.lookup = NewObjectFindError(e)]
         ELSE PutGoOn(<<"NewObject", "FindRootAndPath">>, "list")
    /\ UNCHANGED serverVars

\* NewObject converts the directory id, lists the files and scans them
NewObjectList ==
    /\ put.pc = "list"
    /\ \/ put' = [put EXCEPT !.pc = "switch",
                      !.lookup = ErrOther("Atoi failed")]
       \/ put' = [put EXCEPT !.pc = "switch",
                      !.calls = Append(put.calls, "listFiles"),
                      !.lookup = ErrOther("listFiles failed")]
       \/ \E invOk \in BOOLEAN :
            put' = [put EXCEPT !.pc = "switch",
                      !.calls = Append(put.calls, "listFiles"),
                      !.lookup = NewObjectScan(put.copies, invOk).err]
    /\ UNCHANGED serverVars

\* Put, the switch on the error of NewObject
PutSwitch ==
    /\ put.pc = "switch"
    /\ LET c == PutCase(put.lookup) IN
       CASE c = "Update" ->
              put' = [put EXCEPT !.pc = "update", !.obj = "existing",
                        !.calls = Append(put.calls, "Update")]
         [] c = "PutUnchecked" -> PutGoOn(<<"PutUnchecked">>, "size")
         [] OTHER -> PutReturn(<<>>, "nil", put.lookup)
    /\ UNCHANGED serverVars

\* exisitingObj.Update returns, and Put returns the object and Update's
\* error. Object.Update is outside this source: it is taken to replace the
\* content of the object in place, or to fail, adding no file.
UpdateReturn ==
    /\ put.pc = "update"
    /\ \E e \in {ErrNil, ErrOther("Update failed")} :
         PutReturn(<<>>, "existing", e)
    /\ UNCHANGED serverVars

\* putUnchecked, the test of size
PutSizeCheck ==
    /\ put.pc = "size"
    /\ IF SizeCheck(put.size) # ErrNil
       THEN PutReturn(<<>>, "nil", SizeCheck(put.size))
       ELSE PutGoOn(<<>>, "node")
    /\ UNCHANGED serverVars

\* f.getUploadNode()
GetUploadNode ==
    /\ put.pc = "node"
    /\ \/ PutGoOn(<<"getUploadNode">>, "path")
       \/ PutReturn(<<"getUploadNode">>, "nil", ErrOther("getUploadNode failed"))
    /\ UNCHANGED serverVars

\* f.dirCache.FindRootAndPath(ctx, remote, true): a missing directory is
\* created
FindPathCreate ==
    /\ put.pc = "path"
    /\ \E e \in FindRootAndPathErrors(put.dir, TRUE) :
         IF e # ErrNil
         THEN PutReturn(<<"FindRootAndPath">>, "nil", e)
         ELSE put' = [put EXCEPT !.pc = "upload", !.dir = TRUE,
                        !.calls = put.calls \o
                           (IF put.dir THEN <<"FindRootAndPath">>
                            ELSE <<"FindRootAndPath", "CreateDir">>)]
    /\ UNCHANGED serverVars

\* f.uploadFile: one more file of that name is on the remote
UploadFile ==
    /\ put.pc = "upload"
    /\ \/ put' = [put EXCEPT !.pc = "end", !.copies = put.copies + 1,
                      !.calls = Append(put.calls, "uploadFile")]
       \/ PutReturn(<<"uploadFile">>, "nil", ErrOther("uploadFile failed"))
    /\ UNCHANGED serverVars

\* f.endUpload and the reading of its answer
EndUpload ==
    /\ put.pc = "end"
    /\ \/ PutReturn(<<"endUpload">>, "new", ErrNil)
       \/ \E what \in {"endUpload failed", "unexpected amount of files",
                        "ParseInt failed"} :
            PutReturn(<<"endUpload">>, "nil", ErrOther(what))
    /\ UNCHANGED serverVars

PutNext ==
    \/ NewObjectFind
    \/ NewObjectList
    \/ PutSwitch
    \/ UpdateReturn
    \/ PutSizeCheck
    \/ GetUploadNode
    \/ FindPathCreate
    \/ UploadFile
    \/ EndUpload

PutSpec == PutInit /\ [][PutNext]_vars

(***************************************************************************)
(* Properties.                                                             *)
(***************************************************************************)
Has(tr, e) == \E i \in DOMAIN tr : tr[i] = e
Count(tr, e) == Cardinality({i \in DOMAIN tr : tr[i] = e})

\* the request being served is a POST
ServingPost == pc # "idle" /\ req.method = "POST"

\* the form and the JSON body of the request, where the content type asks
\* for one, parse
BodyParses(r) ==
    /\ r.contentType = CTForm => r.body.kind # "garbage"
    /\ r.contentType = CTJSON => r.body.kind \in {"json", "null"}

\* the registry has an operation at the request's path
Registered(r) == TrimLeft(r.path, "/") \in CallPaths
RegisteredCall(r) == CallsGet(TrimLeft(r.path, "/"))

\* neither the handler nor the scheduler was invoked for the request
NothingInvoked ==
    /\ ~Has(trace, "Fn") /\ ~Has(trace, "StartJob")
    /\ inline = NoCall /\ job = NoJob

\* C1: a POST to a registered path whose parameters decode is answered 403
\* exactly when the operation requires authorisation, NoAuth is off and the
\* server uses no auth; nothing is invoked then; and the same request under
\* the same options with NoAuth on is not answered 403 but goes on to the
\* _async check, and to the handler or the scheduler when that check passes.
C1_AuthGate ==
    (ServingPost /\ BodyParses(req) /\ Registered(req)) =>
        LET call == RegisteredCall(req)
            on == handlePost(req, [opt EXCEPT !.NoAuth = TRUE],
                             TrimLeft(req.path, "/"))
        IN  /\ (resp.status = StatusForbidden)
                <=> (call.AuthRequired /\ ~opt.NoAuth /\ ~opt.Auth)
            /\ resp.status = StatusForbidden =>
                /\ pc = "done" /\ resp.kind = "error"
                /\ NothingInvoked
                /\ on.resp.status # StatusForbidden
                /\ Has(on.trace, "GetBool")
                /\ ~NotErrParamNotFound(GetBool(in, "_async").err)
                     => on.kind \in {"inline", "job"}

C1_Witness ==
    /\ ServingPost /\ BodyParses(req) /\ Registered(req)
    /\ resp.status = StatusForbidden
    /\ handlePost(req, [opt EXCEPT !.NoAuth = TRUE],
                  TrimLeft(req.path, "/")).kind = "job"

\* C2 as stated: every request to an unregistered path, whatever its method,
\* content type and body, is answered 404 with the requested path in the
\* body's path field.
C2_Original ==
    (pc = "done" /\ ~Registered(req)) =>
        /\ resp.status = StatusNotFound
        /\ resp.kind = "error"
        /\ resp.body.path = TrimLeft(req.path, "/")

\* C2: every POST to an unregistered path whose form or JSON body parses is
\* answered 404 by writeError, and the body's path field is the requested
\* path without its leading slashes.
C2_UnknownPost ==
    (ServingPost /\ BodyParses(req) /\ ~Registered(req)) =>
        /\ pc = "done"
        /\ resp.status = StatusNotFound
        /\ resp.kind = "error"
        /\ resp.body.status = StatusNotFound
        /\ resp.body.path = TrimLeft(req.path, "/")
        /\ NothingInvoked

C2_Witness ==
    /\ ServingPost /\ req.path = <<"/", "nosuch">>
    /\ req.contentType = CTJSON /\ req.body.kind = "json"
    /\ resp.status = StatusNotFound
    /\ resp.body.path = <<"nosuch">>

\* the request went to the remote browser, which failed to resolve it
BrowseFailed ==
    /\ pc = "done" /\ req.method \in {"GET", "HEAD"}
    /\ Has(trace, "cache.Get") /\ Has(trace, "writeError")

NotFoundCauses == {"ErrorDirNotFound", "ErrorObjectNotFound"}

\* C3 as stated: serveRemote reports every resolution failure, a missing
\* object and a missing directory included, with a 5xx status.
C3_Original ==
    BrowseFailed => resp.status >= StatusInternalServerError

\* C3: serveRemote reports a resolution failure whose root cause is
\* fs.ErrorObjectNotFound or fs.ErrorDirNotFound with status 404 and every
\* other resolution failure with status 500, always as a structured error.
C3_BrowseErrors ==
    BrowseFailed =>
        /\ resp.kind = "error"
        /\ resp.body.status = resp.status
        /\ resp.status =
             IF resp.body.error.cause \in NotFoundCauses
             THEN StatusNotFound ELSE StatusInternalServerError
        /\ Has(trace, "NewObject") =>
             resp.body.error.text = "failed to find object"
        /\ Has(trace, "DirSorted") =>
             resp.body.error.text = "failed to list directory"

C3_Witness ==
    /\ BrowseFailed
    /\ req.path = <<"/", "[", "r", "]", "f">>
    /\ Has(trace, "NewObject")
    /\ resp.body.error.cause = "ErrorObjectNotFound"
    /\ resp.status = StatusNotFound

\* key k occurs in the list of key=value pairs q
InPairs(q, k) == \E i \in DOMAIN q : q[i].k = k
\* the value of the last k=... pair of q
LastFor(q, k) ==
    LET I == {i \in DOMAIN q : q[i].k = k}
    IN  q[CHOOSE i \in I : \A j \in I : j <= i].v

\* the handler or the scheduler was given the map, _async deleted
Stripped == Has(trace, "Fn") \/ Has(trace, "StartJob")
\* variable in still holds what was decoded for key k
Visible(k) == k # "_async" \/ ~Stripped

\* C4 as stated: with a form content type, a key of both the query string
\* and the form body is stored with the body's value.
C4_Original ==
    (ServingPost /\ req.contentType = CTForm /\ req.body.kind = "form") =>
        \A k \in Keys :
            (Visible(k) /\ InPairs(req.query, k) /\ InPairs(req.body.pairs, k))
                => in.m[k] = Str(LastFor(req.body.pairs, k))

\* C4: with a form content type the map holds, for every key of the query
\* string, the last value the query string gives it, also when the form
\* body has the key (query values override same-named body values: the
\* last element of the key's list in r.Form is taken and the list holds the
\* body's values first); a key of the body alone holds the body's last
\* value, and no other key is in the map.
C4_FormQueryWins ==
    (ServingPost /\ req.contentType = CTForm /\ req.body.kind = "form") =>
        /\ ~in.nil
        /\ \A k \in Keys : Visible(k) =>
             IF InPairs(req.query, k)
             THEN k \in DOMAIN in.m /\ in.m[k] = Str(LastFor(req.query, k))
             ELSE IF InPairs(req.body.pairs, k)
             THEN k \in DOMAIN in.m /\ in.m[k] = Str(LastFor(req.body.pairs, k))
             ELSE k \notin DOMAIN in.m

C4_Witness ==
    /\ ServingPost /\ req.contentType = CTForm /\ req.body.kind = "form"
    /\ InPairs(req.query, "num") /\ InPairs(req.body.pairs, "num")
    /\ LastFor(req.query, "num") = "7" /\ LastFor(req.body.pairs, "num") = "5"
    /\ inline # NoCall /\ inline.in.m["num"] = Str("7")

\* C5: with a JSON content type and a JSON object as the body, every key of
\* the object holds the object's value, also when the query string has the
\* key; every key of the query string alone holds the query string's last
\* value; no other key is in the map.
C5_JSONOverridesQuery ==
    (ServingPost /\ req.contentType = CTJSON /\ req.body.kind = "json") =>
        /\ ~in.nil
        /\ \A k \in Keys : Visible(k) =>
             IF k \in DOMAIN req.body.obj
             THEN k \in DOMAIN in.m /\ in.m[k] = req.body.obj[k]
             ELSE IF InPairs(req.query, k)
             THEN k \in DOMAIN in.m /\ in.m[k] = Str(LastFor(req.query, k))
             ELSE k \notin DOMAIN in.m

C5_Witness ==
    /\ ServingPost /\ req.contentType = CTJSON /\ req.body.kind = "json"
    /\ req.query = <<[k |-> "num", v |-> "7"], [k |-> "_async", v |-> "true"]>>
    /\ DOMAIN req.body.obj = {"num"}
    /\ ~Stripped
    /\ in.m["num"] = Str("5") /\ in.m["_async"] = Str("true")

\* C6: a POST whose form or JSON body does not parse is answered 400 at
\* once: the registry is not consulted, _async is not read, and neither a
\* handler nor the scheduler is invoked, whatever the path and the options.
C6_ParseFailure ==
    (ServingPost /\ ~BodyParses(req)) =>
        /\ pc = "done"
        /\ resp.status = StatusBadRequest
        /\ resp.kind = "error"
        /\ resp.body.status = StatusBadRequest
        /\ ~Has(trace, "Calls.Get")
        /\ ~Has(trace, "GetBool")
        /\ NothingInvoked

C6_Witness ==
    /\ ServingPost /\ req.contentType = CTJSON /\ req.body.kind = "garbage"
    /\ req.path = <<"/", "secure">>
    /\ ~opt.NoAuth /\ ~opt.Auth
    /\ resp.status = StatusBadRequest

\* the map handlePost decoded for request r
Decoded(r) == JSONStep(r, ReadValues(FormStep(r).values)).in

\* p is the decoded map of the request being served without key _async
HandedOn(p) ==
    LET d == Decoded(req)
    IN  /\ p.nil <=> d.nil
        /\ DOMAIN p.m = DOMAIN d.m \ {"_async"}
        /\ \A k \in DOMAIN p.m : p.m[k] = d.m[k]

\* C7: the map given to a handler called inline or submitted as a job has
\* no _async key, and has every other key of the decoded map with its
\* value.
C7_AsyncStripped ==
    pc # "idle" =>
        /\ Has(trace, "Fn") => inline # NoCall
        /\ inline # NoCall => HandedOn(inline.in)
        /\ job # NoJob => HandedOn(job.in)

C7_Witness ==
    /\ pc # "idle" /\ job # NoJob
    /\ req.contentType = CTForm /\ req.body.kind = "form"
    /\ InPairs(req.body.pairs, "_async") /\ InPairs(req.query, "num")
    /\ "num" \in DOMAIN job.in.m /\ "_async" \notin DOMAIN job.in.m

\* the request passed decoding, the lookup and the auth gate, and its
\* _async value, if any, is a boolean
PassedGate ==
    /\ ServingPost /\ BodyParses(req) /\ Registered(req)
    /\ ~(RegisteredCall(req).AuthRequired /\ ~opt.NoAuth /\ ~opt.Auth)
    /\ ~NotErrParamNotFound(GetBool(Decoded(req), "_async").err)
AsyncRequested == GetBool(Decoded(req), "_async").b

\* C8: without _async, or with _async false, the handler is called inline
\* once, the scheduler is not called and nothing is written before the
\* handler has returned; with _async true, StartJob is called once with the
\* handler and the map, the handler is not called inline, the response can
\* be written while the job runs and, when StartJob gave no error, its body
\* is the map StartJob returned.
C8_ExecutionMode ==
    PassedGate =>
        IF ~AsyncRequested
        THEN /\ Count(trace, "Fn") = 1 /\ Count(trace, "StartJob") = 0
             /\ job = NoJob
             /\ inline.Fn = RegisteredCall(req).Fn /\ inline.in = in
             /\ pc \in {"inFn", "reply"} => resp = NoResp
             /\ pc = "done" =>
                  /\ resp.kind # "none"
                  /\ trace[Len(trace) - 1] = "Fn"
        ELSE /\ Count(trace, "StartJob") = 1 /\ Count(trace, "Fn") = 0
             /\ inline = NoCall
             /\ job # NoJob =>
                  job.Fn = RegisteredCall(req).Fn /\ job.in = in
             /\ pc = "reply" => resp = NoResp /\ ENABLED Reply
             /\ (pc = "done" /\ ret.err = ErrNil) =>
                  /\ resp = [status |-> StatusOK, kind |-> "json",
                             body |-> ret.out]
                  /\ ret.out = JobHandle

C8_Witness ==
    /\ PassedGate /\ AsyncRequested
    /\ pc = "done" /\ resp.kind = "json" /\ resp.body = JobHandle
    /\ job # NoJob /\ job.status = "running"

\* C9: the handler called inline holds the request's context; a job never
\* holds it, so a job never ends with the cancellation of the request.
C9_ContextOnlyInline ==
    /\ inline # NoCall => inline.ctx = "request"
    /\ job # NoJob =>
         /\ job.ctx # "request"
         /\ job.err.text # "context canceled"

C9_Witness ==
    /\ cancelled /\ pc = "done"
    /\ job # NoJob /\ job.Fn = "op" /\ job.status = "running"

\* the handler called inline saw the request's cancellation
C9_InlineObserves ==
    /\ pc = "reply" /\ inline.ctx = "request" /\ cancelled
    /\ ret.err.text = "context canceled"

\* C10: a POST that parses, to a registered operation without auth
\* requirement and without _async, whose handler returns no error, is
\* answered 200 with the handler's result as the body, an empty object for
\* a nil result; echo sent {"num":"5"} answers {"num":"5"} with 200.
C10_SyncSuccess ==
    /\ (PassedGate /\ ~AsyncRequested /\ ~RegisteredCall(req).AuthRequired
            /\ pc = "done" /\ ret.err = ErrNil) =>
         /\ resp.status = StatusOK
         /\ resp.kind = "json"
         /\ ~resp.body.nil
         /\ resp.body.m = ret.out.m
    /\ (ServingPost /\ pc = "done" /\ TrimLeft(req.path, "/") = <<"echo">>
            /\ req.contentType = CTJSON /\ req.query = <<>>
            /\ req.body = [kind |-> "json", obj |-> [k \in {"num"} |-> Str("5")]]) =>
         resp = [status |-> StatusOK, kind |-> "json",
                 body |-> MkParams([k \in {"num"} |-> Str("5")])]

C10_Witness ==
    /\ ServingPost /\ pc = "done" /\ TrimLeft(req.path, "/") = <<"echo">>
    /\ req.contentType = CTJSON /\ req.query = <<>>
    /\ req.body = [kind |-> "json", obj |-> [k \in {"num"} |-> Str("5")]]
    /\ resp.status = StatusOK
    /\ resp.body.m["num"] = Str("5")

ParamCauses == {"ErrParamInvalid", "ErrParamNotFound"}

\* C11: the status writeError writes for an error and the status s its
\* caller passed is 404 when the error's root cause is fs.ErrorDirNotFound
\* or fs.ErrorObjectNotFound, otherwise 400 when the error is an invalid
\* parameter or a parameter not found, otherwise s; a handler or submission
\* failure, passed with 500, is answered 500 only when neither rule
\* applies; the body's status field is the status written.
C11_ErrorStatus ==
    resp.kind = "error" =>
        /\ resp.body.status = resp.status
        /\ resp.status =
             IF resp.body.error.cause \in NotFoundCauses THEN StatusNotFound
             ELSE IF resp.body.error.cause \in ParamCauses THEN StatusBadRequest
             ELSE resp.asked
        /\ Stripped =>
             /\ resp.asked = StatusInternalServerError
             /\ resp.status = StatusInternalServerError
                  <=> resp.body.error.cause \notin NotFoundCauses \cup ParamCauses

C11_Witness ==
    /\ resp.kind = "error" /\ Has(trace, "Fn")
    /\ resp.asked = StatusInternalServerError
    /\ resp.body.error.cause = "ErrParamNotFound"
    /\ resp.status = StatusBadRequest

ErrorFields == {"status", "error", "input", "path"}

\* the form of the request was parsed and did not parse
FormFailed(r) == r.contentType = CTForm /\ r.body.kind = "garbage"

\* the parameters decoded for the request: none for a method other than
\* POST and for a form that does not parse
OriginalInput ==
    IF req.method = "POST" /\ ~FormFailed(req) THEN Decoded(req)
    ELSE NilParams

\* C12 as stated: every error body has the four fields, input being the
\* decoded parameters of the request and path its dispatch path, at every
\* call site of writeError.
C12_Original ==
    resp.kind = "error" =>
        /\ DOMAIN resp.body = ErrorFields
        /\ resp.body.path = TrimLeft(req.path, "/")
        /\ resp.body.input = OriginalInput

\* the sub-path serveRemote was given: what follows the first "]"
SubPath(r) == fsMatch(TrimLeft(r.path, "/")).rest

\* C12: every error body has the four fields. For the errors of handler
\* and handlePost, path is the dispatch path and input is nil (method not
\* allowed, form parse failure), the decoded parameters (JSON parse
\* failure, unknown method, auth rejection, bad _async) or the map handed
\* to the handler or the scheduler, which is the decoded parameters without
\* _async (handler or submission failure). For the three failures of the
\* remote browser, input is nil and path is the sub-path after the first
\* "]", with its surrounding slashes removed for a listing or object
\* failure.
C12_ErrorBody ==
    resp.kind = "error" =>
        /\ DOMAIN resp.body = ErrorFields
        /\ resp.body.status = resp.status
        /\ IF req.method \in {"GET", "HEAD"}
           THEN /\ resp.body.input = NilParams
                /\ resp.body.path =
                     IF Has(trace, "DirSorted") \/ Has(trace, "NewObject")
                     THEN Trim(SubPath(req), "/") ELSE SubPath(req)
           ELSE /\ resp.body.path = TrimLeft(req.path, "/")
                /\ IF Stripped THEN HandedOn(resp.body.input)
                   ELSE resp.body.input = OriginalInput

C12_Witness ==
    /\ resp.kind = "error" /\ req.method = "GET"
    /\ req.path = <<"/", "[", "r", "]", "/", "f", "/">>
    /\ Has(trace, "DirSorted")
    /\ resp.body.path = <<"f">>
    /\ resp.body.input = NilParams

\* a handler failure reported without the _async the request carried
C12_AsyncDropped ==
    /\ resp.kind = "error" /\ Has(trace, "Fn")
    /\ "_async" \in DOMAIN Decoded(req).m
    /\ "_async" \notin DOMAIN resp.body.input.m

Success(status) == status \in 200..299

\* the response was written by the core, not by the static file server
CoreWritten == pc = "done" /\ resp.kind # "file"

\* C13 as stated: every non-2xx response of the core, a GET or HEAD that
\* matches no row of the router included, carries the structured error body.
C13_Original ==
    (CoreWritten /\ ~Success(resp.status)) => resp.kind = "error"

\* a GET or HEAD that no row of handleGet's table takes
Unrouted ==
    /\ req.method \in {"GET", "HEAD"}
    /\ ~opt.Files
    /\ ~opt.Serve \/ (/\ ~fsMatch(TrimLeft(req.path, "/")).matched
                      /\ TrimLeft(req.path, "/") \notin {<<>>, <<"*">>})

\* C13: every non-2xx response of the core carries the structured error
\* body written through writeError, except the 404 of a GET or HEAD that
\* matches no row of the router, which is the plain text "Not Found"; and an
\* unrouted GET or HEAD always gets that plain text.
C13_ErrorsStructured ==
    /\ (CoreWritten /\ ~Success(resp.status)) =>
          IF Unrouted
          THEN /\ resp = [status |-> StatusNotFound, kind |-> "text",
                          body |-> <<"Not Found">>]
               /\ trace = <<"http.Error">>
          ELSE /\ resp.kind = "error"
               /\ DOMAIN resp.body = ErrorFields
               /\ trace[Len(trace)] = "writeError"
    /\ (pc = "done" /\ Unrouted) => resp.kind = "text"

C13_Witness ==
    /\ CoreWritten /\ req.method = "GET"
    /\ req.path = <<"/", "[", "x", "]", "f">>
    /\ resp.status = StatusInternalServerError
    /\ resp.kind = "error"
    /\ resp.body.path = <<"f">>

\* the plain 404 of the router
C13_PlainNotFound ==
    /\ CoreWritten /\ req.method = "GET" /\ req.path = <<"/", "f">>
    /\ resp.kind = "text" /\ resp.status = StatusNotFound

HandledMethods == {"GET", "HEAD", "POST", "OPTIONS"}

\* C14: a request whose method is not GET, HEAD, POST or OPTIONS is
\* answered, whatever its path, with status 405 and an error body whose
\* message names the method; writeError is the only call made for it: no
\* registry lookup, no auth check, no handler call, no job, no routing.
C14_MethodNotAllowed ==
    (pc # "idle" /\ req.method \notin HandledMethods) =>
        /\ pc = "done"
        /\ resp.kind = "error"
        /\ resp.status = StatusMethodNotAllowed
        /\ resp.body.status = StatusMethodNotAllowed
        /\ resp.body.error.text = "method not allowed"
        /\ resp.body.error.arg = <<req.method>>
        /\ trace = <<"writeError">>
        /\ NothingInvoked
        /\ in = NilParams

C14_Witness ==
    /\ pc = "done" /\ req.method = "DELETE"
    /\ req.path = <<"/", "secure">>
    /\ ~opt.NoAuth /\ ~opt.Auth
    /\ resp.status = StatusMethodNotAllowed
    /\ resp.body.error.arg = <<"DELETE">>

\* the path of a GET or HEAD being answered, as the router sees it
RoutedPath == TrimLeft(req.path, "/")

\* the path has the shape [<backend-id>]<subpath>
Bracketed(path) ==
    /\ Len(path) >= 2 /\ path[1] = "["
    /\ \E i \in 2..Len(path) : path[i] = "]"

\* the length of the text between "[" and the first "]"
IdLen(path) ==
    CHOOSE n \in 0..(Len(path) - 2) :
        /\ path[n + 2] = "]"
        /\ \A j \in 2..(n + 1) : path[j] # "]"
BackendId(path) == SubSeq(path, 2, IdLen(path) + 1)
SubPathOf(path) == SubSeq(path, IdLen(path) + 3, Len(path))

\* the first matching row of the dispatch table
Row(path, o) ==
    IF Bracketed(path) /\ o.Serve THEN 1
    ELSE IF path = <<"*">> /\ o.Serve THEN 2
    ELSE IF o.Files THEN 3
    ELSE IF path = <<>> /\ o.Serve THEN 4
    ELSE 5

\* the destination a request went to, read off the first call made for it
Destination ==
    CASE Head(trace) = "cache.Get" -> "remote"
      [] Head(trace) = "serveRoot" -> "root"
      [] Head(trace) = "files.ServeHTTP" -> "files"
      [] Head(trace) = "http.Error" -> "notfound"
      [] OTHER -> "other"

Routed == pc = "done" /\ req.method \in {"GET", "HEAD"}

\* C15: the destination of a GET or HEAD is given by the first matching
\* row of the table; the remote browser gets the text up to the first "]"
\* as backend id and what follows it as sub-path; with serving disabled
\* nothing reaches the remote browser or the root listing; with static
\* files configured the empty path goes to the file server.
C15_Dispatch ==
    Routed =>
        /\ Destination =
             CASE Row(RoutedPath, opt) = 1 -> "remote"
               [] Row(RoutedPath, opt) \in {2, 4} -> "root"
               [] Row(RoutedPath, opt) = 3 -> "files"
               [] OTHER -> "notfound"
        /\ Destination = "remote" =>
             /\ Has(trace, "DirSorted") \/ Has(trace, "NewObject")
                   <=> BackendId(RoutedPath) \in Remotes
             /\ trace = <<"cache.Get", "writeError">> =>
                   resp.body.path = SubPathOf(RoutedPath)
             /\ resp.kind = "listing" =>
                   resp.body.dir = Trim(SubPathOf(RoutedPath), "/")
             /\ resp.kind = "object" =>
                   resp.body = Trim(SubPathOf(RoutedPath), "/")
        /\ ~opt.Serve => Destination \notin {"remote", "root"}
        /\ (opt.Files /\ RoutedPath = <<>>) => Destination = "files"
        /\ resp.kind = "file" => resp.body = RoutedPath

C15_Witness ==
    /\ Routed /\ opt.Serve /\ opt.Files
    /\ req.path = <<"/", "[", "r", "]", "]">>
    /\ Destination = "remote"
    /\ resp.kind = "object" /\ resp.body = <<"]">>

\* the empty path with static files configured and serving enabled
C15_EmptyPathToFiles ==
    /\ Routed /\ opt.Serve /\ opt.Files /\ req.path = <<"/">>
    /\ Destination = "files"

\* serveRemote obtained the backend of the request being answered
BackendObtained ==
    /\ Routed /\ Destination = "remote"
    /\ trace # <<"cache.Get", "writeError">>

\* C16: once the backend is obtained, a sub-path that is empty or ends in
\* "/" is listed (DirSorted on the sub-path without its surrounding slashes,
\* NewObject never called) and any other sub-path is looked up as an object
\* (NewObject on the sub-path without its surrounding slashes, never
\* listed); a directory page has one entry per entry the listing returned,
\* in the listing's order, flagged as directory exactly when that entry is
\* a directory.
C16_DirOrObject ==
    BackendObtained =>
        LET sub == SubPathOf(RoutedPath)
            asked == IF resp.kind = "error" THEN resp.body.path
                     ELSE IF resp.kind = "listing" THEN resp.body.dir
                     ELSE resp.body
        IN  /\ asked = Trim(sub, "/")
            /\ IF sub = <<>> \/ sub[Len(sub)] = "/"
               THEN /\ Count(trace, "DirSorted") = 1
                    /\ ~Has(trace, "NewObject")
                    /\ resp.kind \in {"listing", "error"}
                    /\ resp.kind = "listing" =>
                         /\ Len(resp.body.entries) = Len(listed)
                         /\ \A i \in DOMAIN listed :
                              /\ resp.body.entries[i].name = listed[i].remote
                              /\ resp.body.entries[i].isDir = listed[i].isDir
               ELSE /\ Count(trace, "NewObject") = 1
                    /\ ~Has(trace, "DirSorted")
                    /\ resp.kind \in {"object", "error"}

C16_Witness ==
    /\ BackendObtained
    /\ req.path = <<"/", "[", "r", "]", "/", "f", "/">>
    /\ resp.kind = "listing" /\ resp.body.dir = <<"f">>
    /\ Len(listed) = 2
    /\ ~resp.body.entries[1].isDir /\ resp.body.entries[2].isDir

\* an object request whose sub-path opens with a slash
C16_ObjectServed ==
    /\ BackendObtained
    /\ req.path = <<"/", "[", "r", "]", "f">>
    /\ resp.kind = "object" /\ resp.body = <<"f">>

\* the values the response headers give to name n, in the order added
HeaderValues(n) ==
    LET s == SelectSeq(header, LAMBDA h : h.name = n)
    IN  [i \in 1..Len(s) |-> s[i].value]

\* C17: from the moment a request is dispatched to the moment its handler
\* returns, whatever its method, path and outcome, the response headers
\* hold Access-Control-Allow-Origin once, with value "*", and
\* Access-Control-Allow-Headers once, with the value of the request's
\* Access-Control-Request-Headers header (empty when the request has none).
C17_CORSHeaders ==
    pc # "idle" =>
        /\ HeaderValues("Access-Control-Allow-Origin") = <<"*">>
        /\ HeaderValues("Access-Control-Allow-Headers") = <<req.acrh>>
        /\ Len(header) = 2

C17_Witness ==
    /\ pc = "done" /\ req.method = "POST"
    /\ req.acrh = "X-Token"
    /\ resp.status = StatusForbidden
    /\ HeaderValues("Access-Control-Allow-Headers") = <<"X-Token">>

\* the headers are in place while the handler of a POST still runs
C17_BeforeDispatch ==
    /\ pc = "inFn" /\ resp = NoResp /\ req.acrh = "X-Token"
    /\ HeaderValues("Access-Control-Allow-Origin") = <<"*">>

\* C18: an OPTIONS request, whatever its path, content type and body, is
\* answered 200 with no body, and handleOptions is the only call made for
\* it: no registry lookup, no auth check, no handler call, no job, no
\* backend.
C18_Options ==
    (pc # "idle" /\ req.method = "OPTIONS") =>
        /\ pc = "done"
        /\ resp.status = StatusOK
        /\ resp.kind = "empty" /\ resp.body = <<>>
        /\ trace = <<"handleOptions">>
        /\ NothingInvoked
        /\ in = NilParams
        /\ listed = <<>>

C18_Witness ==
    /\ pc = "done" /\ req.method = "OPTIONS"
    /\ req.path = <<"/", "secure">>
    /\ ~opt.NoAuth /\ ~opt.Auth
    /\ req.body = GarbageBody
    /\ resp.status = StatusOK /\ resp.kind = "empty"

\* the place of a call in the POST pipeline
Stage(e) ==
    CASE e \in {"Query", "ParseForm", "Decode"} -> 1
      [] e = "Calls.Get" -> 2
      [] e = "GetBool" -> 3
      [] e \in {"Fn", "StartJob"} -> 4
      [] OTHER -> 5

\* the operation of the request requires auth and the server offers none
GateClosed ==
    /\ Registered(req) /\ RegisteredCall(req).AuthRequired
    /\ ~opt.NoAuth /\ ~opt.Auth

\* the decoded parameters hold an _async that is not a boolean
BadAsync == NotErrParamNotFound(GetBool(Decoded(req), "_async").err)

\* C19: the calls of the POST pipeline are made in the order decode,
\* registry lookup, _async parsing, execution, response, and the first
\* failing check decides the response: an undecodable request to an
\* unregistered path gets 400 without a lookup; a request to an
\* unregistered path never gets 403; a request the auth gate rejects gets
\* 403 without its _async being read, also when that value is not a
\* boolean; a request that passes the gate with a non-boolean _async gets
\* 400 with neither the handler nor the scheduler invoked.
C19_PipelineOrder ==
    ServingPost =>
        /\ \A i, j \in DOMAIN trace :
             i < j => /\ Stage(trace[i]) <= Stage(trace[j])
                      /\ Stage(trace[i]) > 1 => Stage(trace[i]) < Stage(trace[j])
        /\ (~BodyParses(req) /\ ~Registered(req)) =>
             /\ pc = "done" /\ resp.status = StatusBadRequest
             /\ ~Has(trace, "Calls.Get")
        /\ ~Registered(req) => resp.status # StatusForbidden
        /\ (BodyParses(req) /\ GateClosed) =>
             /\ pc = "done" /\ resp.status = StatusForbidden
             /\ ~Has(trace, "GetBool")
             /\ NothingInvoked
        /\ (BodyParses(req) /\ Registered(req) /\ ~GateClosed /\ BadAsync) =>
             /\ pc = "done" /\ resp.status = StatusBadRequest
             /\ trace[Len(trace) - 1] = "GetBool"
             /\ NothingInvoked

C19_Witness ==
    /\ ServingPost /\ BodyParses(req) /\ GateClosed /\ BadAsync
    /\ pc = "done" /\ resp.status = StatusForbidden

\* an undecodable request to an unregistered path
C19_DecodeFirst ==
    /\ ServingPost /\ ~BodyParses(req) /\ ~Registered(req)
    /\ resp.status = StatusBadRequest

\* a non-boolean _async behind an open gate
C19_BadAsyncRejected ==
    /\ ServingPost /\ BodyParses(req) /\ Registered(req) /\ ~GateClosed
    /\ RegisteredCall(req).AuthRequired /\ BadAsync
    /\ resp.status = StatusBadRequest

\* the calls that write a response
Writers ==
    {"writeError", "WriteJSON", "Directory.Serve", "serve.Object",
     "files.ServeHTTP", "http.Error", "handleOptions"}
Written == Cardinality({i \in DOMAIN trace : trace[i] \in Writers})

\* C20: a request gets one response: no response is written while the
\* handler has not returned, exactly one when it has, and the writing call
\* is the last call made; writeError is called at most once and nothing is
\* called after it; the handler and the scheduler together are invoked at
\* most once.
C20_OneResponse ==
    pc # "idle" =>
        /\ Written <= 1
        /\ pc = "done" <=> Written = 1
        /\ Written = 0 <=> resp = NoResp
        /\ Written = 1 => trace[Len(trace)] \in Writers
        /\ Count(trace, "writeError") <= 1
        /\ Has(trace, "writeError") =>
             /\ trace[Len(trace)] = "writeError"
             /\ resp.kind = "error"
        /\ Count(trace, "Fn") + Count(trace, "StartJob") <= 1

C20_Witness ==
    /\ pc = "done" /\ Has(trace, "Fn")
    /\ trace[Len(trace)] = "writeError"
    /\ resp.status = StatusInternalServerError
    /\ Written = 1

\* a failed submission is reported once, too
C20_SubmissionFailed ==
    /\ pc = "done" /\ Has(trace, "StartJob")
    /\ trace[Len(trace)] = "writeError" /\ job = NoJob

PutCalled(e) == Has(put.calls, e)

\* Put has gone past its switch on the error of NewObject
PutDecided == put.pc \in {"update", "size", "node", "path", "upload", "end",
                          "returned"}

\* nothing of an upload was done: no node asked for, no directory made, no
\* file sent, the remote as it was
NothingUploaded ==
    /\ ~PutCalled("getUploadNode") /\ ~PutCalled("CreateDir")
    /\ ~PutCalled("uploadFile") /\ ~PutCalled("endUpload")
    /\ put.dir = put.dir0 /\ put.copies = put.copies0

\* the size is 0 or above 100E9
SizeRefused ==
    \/ put.size.hi = 0 /\ put.size.lo = 0
    \/ put.size.hi > 100
    \/ put.size.hi = 100 /\ put.size.lo > 0

C21_MissingDirUploaded ==
    /\ put.pc = "returned" /\ ~put.dir0
    /\ put.lookup = ErrObjectNotFound
    /\ PutCalled("CreateDir") /\ put.obj = "new" /\ put.copies = 1

\* an empty file is refused on the PutUnchecked path
C21_EmptyRefused ==
    /\ put.pc = "returned" /\ PutCalled("PutUnchecked")
    /\ put.size = SizeZero /\ put.err = ErrCantUploadEmptyFiles

\* a file of 100E9 + 1 bytes is refused, one of 100E9 bytes is not
C21_TooBigRefused ==
    /\ put.pc = "returned" /\ PutCalled("PutUnchecked")
    /\ put.size = SizeOf(100, 1) /\ put.err = ErrTooBig
C21_LimitAccepted ==
    /\ put.pc = "returned" /\ put.size = MaxUploadSize /\ put.obj = "new"

\* a lookup that fails otherwise ends the Put
C21_LookupFailed ==
    /\ put.pc = "returned" /\ put.copies0 = 2
    /\ put.lookup = ErrNoDirInCache /\ put.err = ErrNoDirInCache

====
